---- MODULE Spec2Model ----
(***************************************************************************)
(* Model of the chat client (ChatPage: handleSubmit, sendMessageToAPI) and *)
(* of the proxy route handler (POST) of src/app/chat/page.tsx.             *)
(*                                                                         *)
(* A text is a sequence of tokens.  A typed input is a sequence of single  *)
(* characters; a fixed literal of the program is a one-token text.  The    *)
(* empty sequence is the empty string, the only falsy text of JavaScript.  *)
(***************************************************************************)
EXTENDS Integers, Sequences, FiniteSets, TLC

\* ---------------------------------------------------------------- bounds
MaxSubmits == 2    \* accepted submits of one client session
MaxStale == 1      \* timers of finished invocations that are still armed
MaxDownloads == 2  \* invocations of handleDownload

\* ----------------------------------------------------------------- texts
Whitespace == {" ", "\n"}

\* the texts the user types: empty, whitespace only, plain, and with
\* whitespace around and inside
Inputs ==
  { <<>>, <<" ", "\n">>, <<"a">>, <<" ", "a", "\n">>, <<"a", " ", "a">> }

\* true of the texts that hold nothing but whitespace
IsBlank(s) == \A i \in 1..Len(s) : s[i] \in Whitespace

RECURSIVE TrimStart(_)
TrimStart(s) ==
  IF s = <<>> THEN s
  ELSE IF Head(s) \in Whitespace THEN TrimStart(Tail(s)) ELSE s

RECURSIVE TrimEnd(_)
TrimEnd(s) ==
  IF s = <<>> THEN s
  ELSE IF s[Len(s)] \in Whitespace THEN TrimEnd(SubSeq(s, 1, Len(s) - 1)) ELSE s

\* String.prototype.trim
Trim(s) == TrimEnd(TrimStart(s))

\* JavaScript truthiness of a text
Truthy(s) == s # <<>>

Lit(str) == <<str>>

\* ------------------------------------------------- literals of the program
Null == "null"
FailedToGetResponse == "Failed to get response. Please try again."
NoMessageProvided == Lit("No message provided")
UpstreamErrorText == Lit("Sorry, I encountered an error processing your request.")
NoResponseReceived == Lit("No response received")
TimedOutText == Lit("Sorry, the request timed out. Please try again.")
SomethingWentWrong == Lit("Sorry, something went wrong. Please try again.")

\* --------------------------------------------------------- JSON objects
\* An object is a function from the names of its fields; an absent field is
\* not in its domain.
EmptyObj == [f \in {} |-> <<>>]
Has(obj, field) == field \in DOMAIN obj

\* the bodies a caller of the route can post
DirectBodies == {EmptyObj} \cup {[message |-> t] : t \in Inputs}

\* statuses the external service answers with
UpstreamStatuses == {200, 404, 503}

SomeUrls == <<[url |-> "https://x/my-file.pdf", content |-> "c"]>>

\* JSON bodies of the external service
UpstreamData ==
  { EmptyObj,
    [response |-> <<"r">>],
    [response |-> <<>>, message |-> <<"m">>],
    [message |-> <<"m">>],
    [response |-> <<"r">>, urls |-> SomeUrls],
    [response |-> <<>>] }

VARIABLES
  messages,       \* useState<Message[]>: the Conversation
  inputValue,     \* useState: text of the textarea
  loading,        \* useState: a submit is outstanding
  error,          \* useState: error banner, Null or a string
  calls,          \* the fetches of /api/chat issued by handleSubmit, in order
  lastOp,         \* "handleSubmit" right after a submit event of the form, else "-"
  hPc,            \* position of the POST invocation
  hReq,           \* the request the invocation serves
  aborted,        \* controller.signal.aborted
  timer,          \* the setTimeout of line 449
  outbound,       \* the fetch of the external service
  outboundCalls,  \* outbound calls issued by the invocation
  hReply,         \* the response the invocation returned
  staleTimers,    \* armed timers of invocations that have returned
  upstream,       \* what the external service has sent to the invocation
  dl              \* the invocations of handleDownload, in order

clientVars == <<messages, inputValue, loading, error, calls, dl>>
handlerVars ==
  <<hPc, hReq, aborted, timer, outbound, outboundCalls, hReply, staleTimers,
    upstream>>
vars == <<messages, inputValue, loading, error, calls, lastOp, hPc, hReq,
          aborted, timer, outbound, outboundCalls, hReply, staleTimers,
          upstream, dl>>

NoRequest == [origin |-> 0, ok |-> FALSE, body |-> EmptyObj]
NoReply == [status |-> 0, payload |-> [role |-> "none", content |-> <<>>]]
\* response of the outbound fetch: its status once the headers are in, its
\* parsed body once response.json() has resolved
NoUpstream == [status |-> 0, parsed |-> FALSE, data |-> EmptyObj]

Init ==
  /\ messages = <<>>
  /\ inputValue = <<>>
  /\ loading = FALSE
  /\ error = Null
  /\ calls = <<>>
  /\ lastOp = "-"
  /\ hPc = "idle"
  /\ hReq = NoRequest
  /\ aborted = FALSE
  /\ timer = "unset"
  /\ outbound = "none"
  /\ outboundCalls = 0
  /\ hReply = NoReply
  /\ staleTimers = 0
  /\ upstream = NoUpstream
  /\ dl = <<>>

\* ================================================================ client

\* disabled={loading} on the textarea and on the submit button
ControlsEnabledAlways == TRUE
ControlsEnabled == ~loading

\* the guard of handleSubmit
AcceptedNonEmpty(input) == Truthy(input)
Accepted(input) == Truthy(Trim(input))

\* const userMessage: Message = { role: 'user', content: inputValue }
UserMessage(input) == [role |-> "user", content |-> input]

\* setError(null) at the start of an accepted submit
ErrorKept == error
ErrorAtSubmit == Null

\* response.ok
ResponseOk(status) == status \in 200..299

\* finally { setLoading(false) }
LoadingKept == loading
LoadingAtSettle == FALSE

\* onChange of the textarea
TypeInput ==
  /\ ControlsEnabled
  /\ \E t \in Inputs : t # inputValue /\ inputValue' = t
  /\ lastOp' = "-"
  /\ UNCHANGED <<messages, loading, error, calls, dl>>
  /\ UNCHANGED handlerVars

\* handleSubmit up to its await: the submit event of the form (button or
\* Enter through requestSubmit), sendMessageToAPI up to its fetch
HandleSubmit ==
  /\ ControlsEnabled
  /\ lastOp' = "handleSubmit"
  /\ IF Accepted(inputValue)
       THEN /\ Len(calls) < MaxSubmits
            /\ error' = ErrorAtSubmit
            /\ loading' = TRUE
            /\ messages' = Append(messages, UserMessage(inputValue))
            /\ inputValue' = <<>>
            /\ calls' = Append(calls, [message |-> inputValue, st |-> "sent",
                                       reply |-> NoReply])
       ELSE UNCHANGED <<messages, inputValue, loading, error, calls>>
  /\ UNCHANGED dl
  /\ UNCHANGED handlerVars

\* the fetch of /api/chat rejects: the handler is unreachable
CallNetworkFail(i) ==
  /\ calls[i].st = "sent"
  /\ calls' = [calls EXCEPT ![i].st = "rejected"]
  /\ lastOp' = "-"
  /\ UNCHANGED <<messages, inputValue, loading, error, dl>>
  /\ UNCHANGED handlerVars

\* handleSubmit after its await: sendMessageToAPI returns the parsed body of
\* an ok response and throws on a rejected fetch or a response that is not ok
HandleSubmitResume(i) ==
  /\ calls[i].st \in {"replied", "rejected"}
  /\ IF calls[i].st = "replied" /\ ResponseOk(calls[i].reply.status)
       THEN /\ messages' = Append(messages, calls[i].reply.payload)
            /\ error' = error
       ELSE /\ messages' = messages
            /\ error' = FailedToGetResponse
  /\ loading' = LoadingAtSettle
  /\ calls' = [calls EXCEPT ![i].st = "settled", ![i].reply = NoReply]
  /\ lastOp' = "-"
  /\ UNCHANGED <<inputValue, dl>>
  /\ UNCHANGED handlerVars

\* =============================================================== handler

Reply(status, content) ==
  [status |-> status, payload |-> [role |-> "assistant", content |-> content]]

\* if (!message): an absent field is undefined, and so falsy
MessageDefined(body) == Has(body, "message")
MessageTruthy(body) == Has(body, "message") /\ Truthy(body.message)

\* states of the outbound fetch in which the external call is in flight
InFlight == {"pending", "streaming"}

\* controller.abort(): an outbound call in flight is cancelled
ControllerAbort(ob) == IF ob \in InFlight THEN "aborted" ELSE ob

\* finally { controller.abort() }
FinallySkipped(ab, ob) == [aborted |-> ab, outbound |-> ob]
Finally(ab, ob) == [aborted |-> TRUE, outbound |-> ControllerAbort(ob)]

\* fetchError instanceof Error && fetchError.name === 'AbortError'
IsAbortErrorNever(name) == FALSE
IsAbortErrorAlways(name) == TRUE
IsAbortError(name) == name = "AbortError"

\* the outer catch
OuterCatchDefaultStatus == Reply(200, SomethingWentWrong)
OuterCatch == Reply(500, SomethingWentWrong)

\* the catch of the inner try; what it rethrows reaches the outer catch
CatchFetchError(name) ==
  IF IsAbortError(name) THEN Reply(408, TimedOutText)
  ELSE OuterCatch

\* the reply to a non-success status of the external service
UpstreamErrorReplyFixedStatus(status) == Reply(500, UpstreamErrorText)
UpstreamErrorReply(status) == Reply(status, UpstreamErrorText)

\* data.response || data.message || 'No response received'
ReplyContent(data) ==
  IF Has(data, "response") /\ Truthy(data.response) THEN data.response
  ELSE IF Has(data, "message") /\ Truthy(data.message) THEN data.message
  ELSE NoResponseReceived

\* NextResponse.json({role, content, urls: data.urls}): JSON drops a field
\* whose value is undefined
SuccessReplyAlwaysUrls(data) ==
  [status |-> 200,
   payload |-> [role |-> "assistant", content |-> ReplyContent(data),
                urls |-> IF Has(data, "urls") THEN data.urls ELSE <<>>]]
SuccessReply(data) ==
  [status |-> 200,
   payload |-> IF Has(data, "urls")
                 THEN [role |-> "assistant", content |-> ReplyContent(data),
                       urls |-> data.urls]
                 ELSE [role |-> "assistant", content |-> ReplyContent(data)]]

\* the invocation returns reply; its finally block runs before it is done
Finish(reply, ob) ==
  /\ hPc' = "done"
  /\ hReply' = reply
  /\ aborted' = Finally(aborted, ob).aborted
  /\ outbound' = Finally(aborted, ob).outbound

\* the runtime invokes POST for call i of the client:
\* body: JSON.stringify({ message })
HStart(i) ==
  /\ hPc = "idle"
  /\ calls[i].st = "sent"
  /\ calls' = [calls EXCEPT ![i].st = "handling"]
  /\ hReq' = [origin |-> i, ok |-> TRUE, body |-> [message |-> calls[i].message]]
  /\ hPc' = "parse"
  /\ aborted' = FALSE
  /\ lastOp' = "-"
  /\ UNCHANGED <<messages, inputValue, loading, error, dl>>
  /\ UNCHANGED <<timer, outbound, outboundCalls, hReply, staleTimers, upstream>>

\* the runtime invokes POST for another caller (origin 0), whose body is any
\* JSON object, or no JSON at all
HStartDirect ==
  /\ hPc = "idle"
  /\ \E ok \in BOOLEAN, b \in DirectBodies :
       hReq' = [origin |-> 0, ok |-> ok, body |-> IF ok THEN b ELSE EmptyObj]
  /\ hPc' = "parse"
  /\ aborted' = FALSE
  /\ lastOp' = "-"
  /\ UNCHANGED clientVars
  /\ UNCHANGED <<timer, outbound, outboundCalls, hReply, staleTimers, upstream>>

\* POST after await request.json(), up to await fetch(...)
HParsed ==
  /\ hPc = "parse"
  /\ lastOp' = "-"
  /\ IF ~hReq.ok
       THEN /\ Finish(OuterCatch, outbound)
            /\ UNCHANGED <<timer, outboundCalls>>
       ELSE IF ~MessageTruthy(hReq.body)
         THEN /\ Finish(Reply(400, NoMessageProvided), outbound)
              /\ UNCHANGED <<timer, outboundCalls>>
         ELSE /\ timer' = "armed"
              /\ outbound' = "pending"
              /\ outboundCalls' = outboundCalls + 1
              /\ hPc' = "fetch"
              /\ UNCHANGED <<aborted, hReply>>
  /\ UNCHANGED <<hReq, staleTimers, upstream>>
  /\ UNCHANGED clientVars

\* the callback of setTimeout(() => controller.abort(), 290000)
TimerFire ==
  /\ timer = "armed"
  /\ timer' = "fired"
  /\ aborted' = TRUE
  /\ outbound' = ControllerAbort(outbound)
  /\ lastOp' = "-"
  /\ UNCHANGED <<hPc, hReq, outboundCalls, hReply, staleTimers, upstream>>
  /\ UNCHANGED clientVars

\* the external service sends its status line and headers: fetch resolves and
\* POST runs up to its return or to await response.json().  The continuation
\* is a microtask of the resolution, so no timer callback runs in between.
HFetchResolved ==
  /\ hPc = "fetch"
  /\ outbound = "pending"
  /\ timer' = "cleared"
  /\ lastOp' = "-"
  /\ \E status \in UpstreamStatuses :
       /\ upstream' = [upstream EXCEPT !.status = status]
       /\ IF ~ResponseOk(status)
            THEN Finish(UpstreamErrorReply(status), "streaming")
            ELSE /\ hPc' = "body"
                 /\ outbound' = "streaming"
                 /\ UNCHANGED <<aborted, hReply>>
  /\ UNCHANGED <<hReq, outboundCalls, staleTimers>>
  /\ UNCHANGED clientVars

\* fetch rejects with a network error: the inner catch rethrows it
HFetchRejected ==
  /\ hPc = "fetch"
  /\ outbound = "pending"
  /\ Finish(CatchFetchError("TypeError"), "failed")
  /\ lastOp' = "-"
  /\ UNCHANGED <<hReq, timer, outboundCalls, staleTimers, upstream>>
  /\ UNCHANGED clientVars

\* fetch rejects because its signal was aborted
HFetchAborted ==
  /\ hPc = "fetch"
  /\ outbound = "aborted"
  /\ Finish(CatchFetchError("AbortError"), outbound)
  /\ lastOp' = "-"
  /\ UNCHANGED <<hReq, timer, outboundCalls, staleTimers, upstream>>
  /\ UNCHANGED clientVars

\* response.json() resolves with the body of the external service
HBodyParsed ==
  /\ hPc = "body"
  /\ outbound = "streaming"
  /\ \E data \in UpstreamData :
       /\ upstream' = [upstream EXCEPT !.parsed = TRUE, !.data = data]
       /\ Finish(SuccessReply(data), "complete")
  /\ lastOp' = "-"
  /\ UNCHANGED <<hReq, timer, outboundCalls, staleTimers>>
  /\ UNCHANGED clientVars

\* response.json() rejects: malformed JSON, or the connection broke
HBodyFailed ==
  /\ hPc = "body"
  /\ outbound = "streaming"
  /\ \E e \in {"SyntaxError", "TypeError"} :
       Finish(CatchFetchError(e), IF e = "SyntaxError" THEN "complete" ELSE "failed")
  /\ lastOp' = "-"
  /\ UNCHANGED <<hReq, timer, outboundCalls, staleTimers, upstream>>
  /\ UNCHANGED clientVars

\* the callback of a timer whose invocation has returned: controller.abort()
\* on a controller nothing listens to
StaleTimerFire ==
  /\ staleTimers > 0
  /\ staleTimers' = staleTimers - 1
  /\ lastOp' = "-"
  /\ UNCHANGED <<hPc, hReq, aborted, timer, outbound, outboundCalls, hReply, upstream>>
  /\ UNCHANGED clientVars

\* the response reaches the caller and the invocation is over; a timer it
\* left armed stays armed
HDeliver ==
  /\ hPc = "done"
  /\ IF timer = "armed"
       THEN staleTimers < MaxStale /\ staleTimers' = staleTimers + 1
       ELSE staleTimers' = staleTimers
  /\ calls' = IF hReq.origin > 0
                THEN [calls EXCEPT ![hReq.origin].st = "replied",
                                   ![hReq.origin].reply = hReply]
                ELSE calls
  /\ hPc' = "idle"
  /\ hReq' = NoRequest
  /\ aborted' = FALSE
  /\ timer' = "unset"
  /\ outbound' = "none"
  /\ outboundCalls' = 0
  /\ hReply' = NoReply
  /\ upstream' = NoUpstream
  /\ lastOp' = "-"
  /\ UNCHANGED <<messages, inputValue, loading, error, dl>>

\* ============================================================== download

\* the URLs of the references: ending in .pdf in either case, ending in
\* another extension, and holding .pdf before a query string
Urls ==
  { <<"https://x/a", ".pdf">>, <<"https://x/a", ".PDF">>,
    <<"https://x/a", ".docx">>, <<"https://x/a", ".pdf", "?v=1">> }

\* String.prototype.toLowerCase on the parts of a URL
LowerPart(part) == IF part = ".PDF" THEN ".pdf" ELSE part
ToLowerCase(url) == [k \in 1..Len(url) |-> LowerPart(url[k])]

\* url.toLowerCase().endsWith('.pdf')
IncludesPdf(url) == \E k \in 1..Len(url) : ToLowerCase(url)[k] = ".pdf"
EndsWithPdf(url) == Len(url) > 0 /\ ToLowerCase(url)[Len(url)] = ".pdf"

\* window.URL.createObjectURL(blob)
BlobUrl(url) == <<"blob:">> \o url

\* link.href.startsWith('blob:')
IsBlobHref(href) == Len(href) > 0 /\ href[1] = "blob:"

\* handleDownload from document.body.appendChild(link) to its end.  When the
\* DOM throws before the click, the outer catch opens the URL itself.
ClickAndCleanUp(d, domThrows) ==
  IF domThrows
    THEN [d EXCEPT !.pc = "done", !.domThrew = TRUE,
                   !.uses = Append(@, [via |-> "window.open", href |-> d.url])]
    ELSE [d EXCEPT !.pc = "done",
                   !.uses = Append(@, [via |-> "anchor", href |-> d.href]),
                   !.revoked = IsBlobHref(d.href)]

dlFrame ==
  /\ lastOp' = "-"
  /\ UNCHANGED <<messages, inputValue, loading, error, calls>>
  /\ UNCHANGED handlerVars

\* the Download action of a reference: handleDownload up to its first await,
\* or to its end for a URL that is not fetched
DStart ==
  /\ Len(dl) < MaxDownloads
  /\ \E url \in Urls, domThrows \in BOOLEAN :
       LET d == [url |-> url, href |-> url, pc |-> "fetch", outcome |-> "none",
                 fetches |-> 0, uses |-> <<>>, revoked |-> FALSE,
                 domThrew |-> FALSE]
       IN dl' = Append(dl, IF EndsWithPdf(url)
                             THEN [d EXCEPT !.fetches = 1]
                             ELSE ClickAndCleanUp(d, domThrows))
  /\ dlFrame

\* fetch(url) resolves, with whatever status
DFetchResolved(i) ==
  /\ dl[i].pc = "fetch"
  /\ dl' = [dl EXCEPT ![i].pc = "blob"]
  /\ dlFrame

\* fetch(url) rejects (network error, CORS): the inner catch warns
DFetchRejected(i) ==
  /\ dl[i].pc = "fetch"
  /\ \E domThrows \in BOOLEAN :
       dl' = [dl EXCEPT ![i] =
                ClickAndCleanUp([dl[i] EXCEPT !.outcome = "fetchRejected"], domThrows)]
  /\ dlFrame

\* response.blob() resolves: link.href becomes the object URL
DBlobResolved(i) ==
  /\ dl[i].pc = "blob"
  /\ \E domThrows \in BOOLEAN :
       dl' = [dl EXCEPT ![i] =
                ClickAndCleanUp([dl[i] EXCEPT !.outcome = "blob",
                                              !.href = BlobUrl(dl[i].url)],
                                domThrows)]
  /\ dlFrame

\* response.blob() rejects: the inner catch warns
DBlobRejected(i) ==
  /\ dl[i].pc = "blob"
  /\ \E domThrows \in BOOLEAN :
       dl' = [dl EXCEPT ![i] =
                ClickAndCleanUp([dl[i] EXCEPT !.outcome = "blobRejected"], domThrows)]
  /\ dlFrame

\* ========================================================= specification

Next ==
  \/ TypeInput
  \/ HandleSubmit
  \/ \E i \in 1..Len(calls) : CallNetworkFail(i)
  \/ \E i \in 1..Len(calls) : HandleSubmitResume(i)
  \/ \E i \in 1..Len(calls) : HStart(i)
  \/ HParsed
  \/ TimerFire
  \/ HFetchResolved
  \/ HFetchRejected
  \/ HFetchAborted
  \/ HBodyParsed
  \/ HBodyFailed
  \/ HDeliver
  \/ StaleTimerFire

\* one client session and the invocations of the route it causes
Spec == Init /\ [][Next]_vars

HandlerNext ==
  \/ HStartDirect
  \/ HParsed
  \/ TimerFire
  \/ HFetchResolved
  \/ HFetchRejected
  \/ HFetchAborted
  \/ HBodyParsed
  \/ HBodyFailed
  \/ HDeliver
  \/ StaleTimerFire

\* the route invoked with every kind of request
HandlerSpec == Init /\ [][HandlerNext]_vars

DownloadNext ==
  \/ DStart
  \/ \E i \in 1..Len(dl) : DFetchResolved(i)
  \/ \E i \in 1..Len(dl) : DFetchRejected(i)
  \/ \E i \in 1..Len(dl) : DBlobResolved(i)
  \/ \E i \in 1..Len(dl) : DBlobRejected(i)

\* the Download actions of the references
DownloadSpec == Init /\ [][DownloadNext]_vars

\* The event loop runs every continuation that is ready and every timer that
\* is due; nothing obliges the external service to answer.
FairHandlerSpec ==
  /\ HandlerSpec
  /\ WF_vars(HParsed)
  /\ WF_vars(TimerFire)
  /\ WF_vars(HFetchAborted)
  /\ WF_vars(HDeliver)
  /\ WF_vars(StaleTimerFire)

TypeOK ==
  /\ loading \in BOOLEAN
  /\ error \in {Null, FailedToGetResponse}
  /\ inputValue \in Inputs
  /\ Len(calls) <= MaxSubmits
  /\ hPc \in {"idle", "parse", "fetch", "body", "done"}
  /\ timer \in {"unset", "armed", "fired", "cleared"}
  /\ outbound \in {"none", "pending", "streaming", "complete", "failed", "aborted"}
  /\ outboundCalls \in 0..1
  /\ staleTimers \in 0..MaxStale

\* ================================================================ claims

\* the step is an accepted submit: handleSubmit issued a new call
SubmitAccepted == lastOp' = "handleSubmit" /\ Len(calls') = Len(calls) + 1

\* the step is the continuation of handleSubmit for call i
Resumed(i) == calls[i].st \in {"replied", "rejected"} /\ calls'[i].st = "settled"

\* call i ended with a response the client takes for a success
Succeeded(i) == calls[i].st = "replied" /\ calls[i].reply.status \in 200..299

\* the calls of the client that are on their way or being served
CallsInFlight == {i \in 1..Len(calls) : calls[i].st \in {"sent", "handling"}}

\* the contents of the user Messages of the Conversation, in order
UserContents ==
  LET U == SelectSeq(messages, LAMBDA m : m.role = "user")
  IN [j \in 1..Len(U) |-> U[j].content]

\* C1: a submit whose input is not blank appends exactly one user Message
\* whose content is the trimmed input, and no response of the new call has
\* been received at that point.
C1_SubmitAppendsTrimmed ==
  [][ (lastOp' = "handleSubmit" /\ ~IsBlank(inputValue)) =>
        /\ messages' = Append(messages, [role |-> "user", content |-> Trim(inputValue)])
        /\ Len(calls') = Len(calls) + 1
        /\ calls'[Len(calls')].st = "sent"
        /\ calls'[Len(calls')].reply = NoReply ]_vars

\* C2: a submit of an empty or whitespace-only input changes neither the
\* Conversation nor loading nor error, and issues no call.
C2_BlankSubmitIsNoOp ==
  [][ (lastOp' = "handleSubmit" /\ IsBlank(inputValue)) =>
        /\ UNCHANGED <<messages, loading, error, calls>>
        /\ UNCHANGED handlerVars ]_vars

\* a whitespace-only input has just been submitted into a Conversation that
\* is not empty
C2_Witness ==
  /\ lastOp = "handleSubmit"
  /\ inputValue = <<" ", "\n">>
  /\ Len(messages) > 0

\* C3: at most one call of the client is in flight, and no submit starts
\* while loading is true.
C3_OneCallInFlight ==
  /\ [](Cardinality(CallsInFlight) <= 1)
  /\ [][ loading => lastOp' # "handleSubmit" ]_vars

\* the second call is being served after the first one has settled
C3_Witness ==
  /\ Len(calls) = 2
  /\ calls[1].st = "settled"
  /\ calls[2].st = "handling"
  /\ loading

\* C4: the Conversation only grows at its end; its user Messages are the
\* submissions in order; a reply is appended directly after the user Message
\* of its own submission, which is then the latest submission.
C4_AppendOnlyInOrder ==
  /\ [](UserContents = [i \in 1..Len(calls) |-> calls[i].message])
  /\ [][ /\ Len(messages') >= Len(messages)
         /\ SubSeq(messages', 1, Len(messages)) = messages
         /\ \A i \in 1..Len(calls) :
              (Resumed(i) /\ messages' # messages) =>
                /\ i = Len(calls)
                /\ messages[Len(messages)] = [role |-> "user", content |-> calls[i].message]
                /\ messages' = Append(messages, calls[i].reply.payload) ]_vars

\* two submissions, each followed by its reply
C4_Witness ==
  /\ Len(messages) = 4
  /\ messages[1].role = "user" /\ messages[2].role = "assistant"
  /\ messages[3].role = "user" /\ messages[4].role = "assistant"

\* C5: a request whose message is absent or empty is answered 400 "No message
\* provided", and the invocation makes no outbound call.
C5_MissingMessageIs400 ==
  (hPc = "done" /\ hReq.ok
     /\ ("message" \notin DOMAIN hReq.body \/ hReq.body.message = <<>>)) =>
    /\ hReply = [status |-> 400,
                 payload |-> [role |-> "assistant", content |-> <<"No message provided">>]]
    /\ outboundCalls = 0
    /\ outbound = "none"

\* an invocation has answered a request with an empty message
C5_Witness ==
  /\ hPc = "done"
  /\ hReq.ok
  /\ hReq.body = [message |-> <<>>]
  /\ hReply.status = 400

\* C6: when the deadline timer fires while the external service has not
\* responded, the outbound call is aborted, the invocation then returns 408
\* with the timeout text, and the abort precedes that return.
C6_TimeoutIs408 ==
  [][ /\ (timer = "armed" /\ timer' = "fired" /\ outbound = "pending") =>
           (outbound' = "aborted" /\ aborted')
      /\ (hPc = "fetch" /\ outbound = "aborted" /\ hPc' # "fetch") =>
           (hPc' = "done" /\ hReply' = Reply(408, TimedOutText))
      /\ (hPc # "done" /\ hPc' = "done" /\ hReply' = Reply(408, TimedOutText)) =>
           (aborted /\ outbound = "aborted" /\ timer = "fired") ]_vars

\* an invocation has returned the timeout reply
C6_Witness ==
  /\ hPc = "done"
  /\ hReply = Reply(408, TimedOutText)
  /\ timer = "fired"
  /\ outbound = "aborted"

\* C7: an invocation that waits on the external service, for its headers or
\* for its body, always gets to return.
C7_DeadlineAlwaysFires == (hPc \in {"fetch", "body"}) ~> (hPc = "done")

\* C8: when an invocation has finished, its cancellation signal has been
\* triggered and its outbound call is not in flight.
C8_AbortedWhenDone ==
  hPc = "done" => (aborted /\ outbound \notin InFlight)

\* an invocation has returned the upstream-error reply without reading the
\* body, and its outbound call was cancelled
C8_Witness ==
  /\ hPc = "done"
  /\ hReply.status = 503
  /\ timer = "cleared"
  /\ outbound = "aborted"

\* C9: a reply of the handler, its failure replies included, is appended to
\* the Conversation; only a rejected fetch sets the banner and appends nothing.
C9_HandlerFailuresAppended ==
  [][ \A i \in 1..Len(calls) :
        /\ (calls[i].st = "replied" /\ calls'[i].st = "settled") =>
             (messages' = Append(messages, calls[i].reply.payload) /\ error' = error)
        /\ (calls[i].st = "rejected" /\ calls'[i].st = "settled") =>
             (messages' = messages /\ error' = FailedToGetResponse) ]_vars

\* C10: a failed call appends nothing, sets error to the fixed string and
\* ends loading; error is given up only by an accepted submit, which clears
\* it, and it is clear as long as the new call is outstanding.
C10_FailureSetsError ==
  /\ [](\A i \in 1..Len(calls) : calls[i].st # "settled" => error = Null)
  /\ [][ /\ \A i \in 1..Len(calls) :
              (Resumed(i) /\ ~Succeeded(i)) =>
                /\ messages' = messages
                /\ messages[Len(messages)] = [role |-> "user", content |-> calls[i].message]
                /\ error' = FailedToGetResponse
                /\ loading' = FALSE
         /\ (error = FailedToGetResponse /\ error' # FailedToGetResponse) =>
              (SubmitAccepted /\ ~IsBlank(inputValue))
         /\ SubmitAccepted => error' = Null ]_vars

\* the submit after a failed one has cleared the error
C10_Witness ==
  /\ lastOp = "handleSubmit"
  /\ Len(calls) = 2
  /\ Len(messages) = 2
  /\ messages[2].role = "user"
  /\ error = Null

\* C11: an accepted submit issues exactly one call, whose message is the
\* trimmed input.
C11_CallCarriesTrimmed ==
  [][ (lastOp' = "handleSubmit" /\ ~IsBlank(inputValue)) =>
        /\ Len(calls') = Len(calls) + 1
        /\ SubSeq(calls', 1, Len(calls)) = calls
        /\ calls'[Len(calls')].st = "sent"
        /\ calls'[Len(calls')].message = Trim(inputValue) ]_vars

\* the invocation returns in this step
Returns == hPc # "done" /\ hPc' = "done"

\* C12: a non-success status s of the external service is answered with
\* status s and the upstream-error text, without urls; the upstream body is
\* not read.
C12_UpstreamStatusPropagated ==
  [][ (Returns /\ upstream'.status \notin {0} \cup (200..299)) =>
        /\ hPc = "fetch"
        /\ ~upstream'.parsed
        /\ outbound' \notin {"complete", "failed"}
        /\ hReply' =
             [status |-> upstream'.status,
              payload |-> [role |-> "assistant",
                           content |-> <<"Sorry, I encountered an error processing your request.">>]] ]_vars

\* the external service has answered 404 and the invocation has returned
C12_Witness ==
  /\ hPc = "done"
  /\ upstream.status = 404
  /\ hReply.status = 404

\* the content the claim C13 describes: chosen by presence of the fields
ContentByPresence(data) ==
  IF "response" \in DOMAIN data THEN data.response
  ELSE IF "message" \in DOMAIN data THEN data.message
  ELSE <<"No response received">>

\* C13: on a successful external response the reply has status 200, role
\* "assistant", the content chosen by presence of response and message, and
\* the urls of the response if it has any.
C13_ContentByPresence ==
  (hPc = "done" /\ upstream.parsed) =>
    /\ hReply.status = 200
    /\ hReply.payload.role = "assistant"
    /\ hReply.payload.content = ContentByPresence(upstream.data)
    /\ ("urls" \in DOMAIN hReply.payload) = ("urls" \in DOMAIN upstream.data)
    /\ ("urls" \in DOMAIN upstream.data => hReply.payload.urls = upstream.data.urls)

\* C14: a malformed request body, a network error of the outbound call and a
\* body of the external service that cannot be read or parsed each end in
\* the 500 reply.
C14_OtherFailuresAre500 ==
  [][ (Returns /\ \/ ~hReq.ok
                  \/ outbound' = "failed"
                  \/ (hPc = "body" /\ ~upstream'.parsed)) =>
        hReply' =
          [status |-> 500,
           payload |-> [role |-> "assistant",
                        content |-> <<"Sorry, something went wrong. Please try again.">>]] ]_vars

\* the body of the external service was read to its end and was no JSON, and
\* the invocation has returned
C14_Witness ==
  /\ hPc = "done"
  /\ upstream.status = 200
  /\ ~upstream.parsed
  /\ outbound = "complete"
  /\ hReply.status = 500

CallsOutstanding == {i \in 1..Len(calls) : calls[i].st # "settled"}

\* C17: loading is true exactly while a call of the client is outstanding,
\* and the continuation of a call, successful or not, resets it.
C17_LoadingIffOutstanding ==
  /\ [](loading = (CallsOutstanding # {}))
  /\ [][ \A i \in 1..Len(calls) : Resumed(i) => ~loading' ]_vars

\* a call has failed and the client is idle again
C17_Witness ==
  /\ Len(calls) = 1
  /\ calls[1].st = "settled"
  /\ error = FailedToGetResponse
  /\ ~loading

\* C18: when an invocation has finished, its deadline timer is not armed.
C18_TimerNotArmedWhenDone == hPc = "done" => timer # "armed"

\* C19: an invocation returns the timeout reply only when its timer fired
\* while the outbound call was pending; every other exit keeps its own reply.
C19_TimeoutOnlyAfterDeadline ==
  hPc = "done" =>
    /\ (hReply.payload.content = <<"Sorry, the request timed out. Please try again.">>
          \/ hReply.status = 408) =>
         (timer = "fired" /\ outbound = "aborted" /\ upstream.status = 0)
    /\ upstream.parsed => hReply.status = 200
    /\ upstream.status \notin {0} \cup (200..299) => hReply.status = upstream.status
    /\ outbound = "failed" => hReply.status = 500

\* an invocation whose outbound call failed has returned 500, and its timer
\* has fired since
C19_Witness ==
  /\ hPc = "done"
  /\ outbound = "failed"
  /\ timer = "fired"
  /\ hReply.status = 500

\* the URL ends in .pdf, in either case
IsPdfUrl(url) == url[Len(url)] \in {".pdf", ".PDF"}

\* C16: a download of a .pdf URL whose blob fetch failed has ended, and the
\* original URL was opened exactly once; a download of another URL issues no
\* fetch and has ended at once, by the anchor with the original href unless
\* the DOM threw.
C16_FetchFailureFallsBack ==
  \A i \in 1..Len(dl) :
    LET d == dl[i] IN
      /\ (IsPdfUrl(d.url) /\ d.outcome \in {"fetchRejected", "blobRejected"}) =>
           /\ d.pc = "done"
           /\ Len(d.uses) = 1
           /\ d.uses[1].href = d.url
           /\ ~d.revoked
      /\ ~IsPdfUrl(d.url) =>
           /\ d.fetches = 0
           /\ d.pc = "done"
           /\ Len(d.uses) = 1
           /\ d.uses[1].href = d.url
           /\ (~d.domThrew => d.uses[1].via = "anchor")

\* the fetch of a .pdf URL was rejected and the anchor opened the URL itself
C16_Witness ==
  \E i \in 1..Len(dl) :
    /\ dl[i].url = <<"https://x/a", ".PDF">>
    /\ dl[i].outcome = "fetchRejected"
    /\ dl[i].pc = "done"
    /\ dl[i].uses = <<[via |-> "anchor", href |-> dl[i].url]>>

====
